---- MODULE Spec2Model ----
(***************************************************************************)
(* State-machine model of train.py: main(), train(), validate() and        *)
(* predict().  The model object, the datasets and the torch optimizer and  *)
(* scheduler are represented by the part of their state the script reads   *)
(* or writes: a parameter identity, dataset sizes and labels, the          *)
(* optimizer's step count and learning rate, the scheduler's best value    *)
(* and bad-epoch counter, and the checkpoint file.                         *)
(***************************************************************************)
EXTENDS Integers, Sequences, FiniteSets, TLC

\* ---------------------------------------------------------------- bounds
MaxEpochs == 2
MaxBatch == 2
MaxTrain == 2
MaxVal == 1
MaxTest == 3
NumClasses == 2
LongEpochs == 8

\* ------------------------------------------------------ program constants
Patience == 6
FactorNum == 3
FactorDen == 10
ThresholdDen == 10000
LR0 == 1000

\* ---------------------------------------------------------------- floats
\* A float is NaN, +infinity or a non-negative rational n/d in lowest terms.
Num(n, d) == [kind |-> "num", n |-> n, d |-> d]
Inf == [kind |-> "inf", n |-> 0, d |-> 1]
NaN == [kind |-> "nan", n |-> 0, d |-> 1]

RECURSIVE GCD(_, _)
GCD(a, b) == IF b = 0 THEN a ELSE GCD(b, a % b)

Normalize(n, d) == LET g == GCD(n, d) IN Num(n \div g, d \div g)

\* IEEE comparison a < b: false whenever an operand is NaN.
FLe(a, b) ==
    IF a.kind = "nan" \/ b.kind = "nan" THEN FALSE
    ELSE IF b.kind = "inf" THEN TRUE
    ELSE IF a.kind = "inf" THEN FALSE
    ELSE a.n * b.d <= b.n * a.d

FLt(a, b) ==
    IF a.kind = "nan" \/ b.kind = "nan" THEN FALSE
    ELSE IF a.kind = "inf" THEN FALSE
    ELSE IF b.kind = "inf" THEN TRUE
    ELSE a.n * b.d < b.n * a.d

RECURSIVE SumN(_)
SumN(s) == IF s = <<>> THEN 0 ELSE Head(s).n + SumN(Tail(s))

\* np.mean of a list of batch losses; an empty list gives NaN.
Mean(s) ==
    IF Len(s) = 0 THEN NaN
    ELSE IF \E k \in 1..Len(s) : s[k].kind = "nan" THEN NaN
    ELSE IF \E k \in 1..Len(s) : s[k].kind = "inf" THEN Inf
    ELSE Normalize(SumN(s), Len(s))

BatchLosses == {Num(1, 1), Num(2, 1), NaN}
LogitVals == {0, 1}

\* ------------------------------------------------------------ data loaders
CeilDiv(a, b) == (a + b - 1) \div b

Min(a, b) == IF a < b THEN a ELSE b

VARIABLES
    args,           \* parsed command line
    data_dir,       \* sizes of the train / val / test splits on disk
    ckpt_file,      \* {name}_best.pth
    csv_file,       \* {name}_test_predictions.csv
    pc,             \* position in main()
    model,          \* [params, training]
    grads,          \* TRUE while .grad of the parameters is populated
    optimizer,      \* [lr, steps]
    lr_scheduler,   \* [best, num_bad_epochs]
    best_val_loss,
    val_loss,
    epoch,
    tb,             \* index of the next training batch in train()
    test_dataset,   \* labels of the test videos, in dataset order
    predictions,
    labels,
    i,              \* batch index in predict()
    val_log,        \* per finished validation: [loss, params]
    save_log,       \* per checkpoint write: [epoch, loss, params]
    phases,         \* sequence of "T", "V", "S", "C" events of the loop
    logits_log,     \* logits row the model produced for each test video
    write_cnt       \* how often predict() assigned each position

vars == <<args, data_dir, ckpt_file, csv_file, pc, model, grads, optimizer,
          lr_scheduler, best_val_loss, val_loss, epoch, tb, test_dataset,
          predictions, labels, i, val_log, save_log, phases, logits_log,
          write_cnt>>

\* Parameter identities: where the weights came from and how many optimizer
\* steps were applied to them since.
FreshParams == [origin |-> "init", steps |-> 0]
EarlierParams == [origin |-> "earlier_run", steps |-> 0]

NoFile == [exists |-> FALSE, params |-> FreshParams, by |-> "nobody"]
EarlierFile == [exists |-> TRUE, params |-> EarlierParams, by |-> "earlier_run"]
NoCsv == [exists |-> FALSE, rows |-> <<>>]
NoOptimizer == [lr |-> 0, steps |-> 0]
NoScheduler == [best |-> Inf, num_bad_epochs |-> 0]

\* len(train_dataloader): drop_last=True
NumTrainBatches == data_dir.train \div args.batch_size
\* len(val_dataloader): drop_last=False
NumValBatches == CeilDiv(data_dir.val, args.batch_size)
\* len(test_dataloader): drop_last=False
NumTestBatches == CeilDiv(Len(test_dataset), args.batch_size)

TrainConfigs ==
    [predict : {FALSE}, continue_training : BOOLEAN,
     epochs : 0..MaxEpochs, batch_size : 1..MaxBatch]

PredictConfigs ==
    [predict : {TRUE}, continue_training : BOOLEAN,
     epochs : {1}, batch_size : 1..MaxBatch]

LongConfig ==
    [predict |-> FALSE, continue_training |-> FALSE,
     epochs |-> LongEpochs, batch_size |-> 2]

InitRest ==
    /\ csv_file = NoCsv
    /\ pc = "continue_check"
    /\ model = [params |-> FreshParams, training |-> TRUE]
    /\ grads = FALSE
    /\ optimizer = NoOptimizer
    /\ lr_scheduler = NoScheduler
    /\ best_val_loss = Inf
    /\ val_loss = NaN
    /\ epoch = 0
    /\ tb = 0
    /\ test_dataset = <<>>
    /\ predictions = <<>>
    /\ labels = <<>>
    /\ i = 0
    /\ val_log = <<>>
    /\ save_log = <<>>
    /\ phases = <<>>
    /\ logits_log = <<>>
    /\ write_cnt = <<>>

\* The state after argument parsing and model construction (lines 92-97).
Init ==
    /\ \/ /\ args \in TrainConfigs
          /\ data_dir \in [train : 1..MaxTrain, val : 0..MaxVal, test : {1}]
          /\ ckpt_file \in {NoFile, EarlierFile}
       \/ /\ args \in PredictConfigs
          /\ data_dir \in [train : {1}, val : {0}, test : 0..MaxTest]
          /\ ckpt_file \in {NoFile, EarlierFile}
       \/ /\ args = LongConfig
          /\ data_dir = [train |-> 1, val |-> 1, test |-> 0]
          /\ ckpt_file = NoFile
    /\ InitRest


\* ------------------------------------------------------------------ main()
\* Variant: a missing file is opened as if it were there.
CanOpen_Always(f) == TRUE

\* open(..., "rb") succeeds only on an existing file (lines 100, 139).
CanOpen(f) == f.exists

\* Variant: the state dict is read but not loaded into the model.
LoadStateDict_Skipped(m, f) == m

\* model.load_state_dict(torch.load(fp)) (lines 101-102, 140-141).
LoadStateDict(m, f) == [m EXCEPT !.params = f.params]

\* Lines 99-105.
ContinueTraining ==
    /\ pc = "continue_check"
    /\ IF args.continue_training
       THEN IF CanOpen(ckpt_file)
            THEN /\ model' = LoadStateDict(model, ckpt_file)
                 /\ pc' = "setup"
            ELSE /\ pc' = "aborted"
                 /\ UNCHANGED model
       ELSE /\ pc' = "setup"
            /\ UNCHANGED model
    /\ UNCHANGED <<args, data_dir, ckpt_file, csv_file, grads, optimizer,
                   lr_scheduler, best_val_loss, val_loss, epoch, tb,
                   test_dataset, predictions, labels, i, val_log, save_log,
                   phases, logits_log, write_cnt>>

\* Variant: continue-training resumes from the loss of the stored model.
InitialBest_FromFile(a, f) == IF a.continue_training THEN Num(1, 1) ELSE Inf

\* best_val_loss = np.inf (line 123).
InitialBest(a, f) == Inf

\* Lines 107-123: loaders, optimizer, scheduler, best_val_loss.
PrepareTraining ==
    /\ pc = "setup"
    /\ IF args.predict
       THEN /\ pc' = "prepare_test"
            /\ UNCHANGED <<optimizer, lr_scheduler, best_val_loss, epoch>>
       ELSE /\ optimizer' = [lr |-> LR0, steps |-> 0]
            /\ lr_scheduler' = [best |-> Inf, num_bad_epochs |-> 0]
            /\ best_val_loss' = InitialBest(args, ckpt_file)
            /\ epoch' = 0
            /\ pc' = "loop"
    /\ UNCHANGED <<args, data_dir, ckpt_file, csv_file, model, grads, val_loss,
                   tb, test_dataset, predictions, labels, i, val_log, save_log,
                   phases, logits_log, write_cnt>>

\* Variant: range(args.epochs + 1).
LoopContinues_OneMore(e, n) == e <= n

\* for epoch in range(args.epochs) (line 124).
LoopContinues(e, n) == e < n

\* Line 124, and the entry of train() (lines 37-38).
LoopHead ==
    /\ pc = "loop"
    /\ IF LoopContinues(epoch, args.epochs)
       THEN /\ pc' = "train"
            /\ model' = [model EXCEPT !.training = TRUE]
            /\ tb' = 0
       ELSE /\ pc' = "prepare_test"
            /\ UNCHANGED <<model, tb>>
    /\ UNCHANGED <<args, data_dir, ckpt_file, csv_file, grads, optimizer,
                   lr_scheduler, best_val_loss, val_loss, epoch, test_dataset,
                   predictions, labels, i, val_log, save_log, phases,
                   logits_log, write_cnt>>

\* ----------------------------------------------------------------- train()
\* Lines 39-46: forward pass, loss, loss.backward().
TrainForwardBackward ==
    /\ pc = "train"
    /\ tb < NumTrainBatches
    /\ grads' = TRUE
    /\ pc' = "optimizer_step"
    /\ UNCHANGED <<args, data_dir, ckpt_file, csv_file, model, optimizer,
                   lr_scheduler, best_val_loss, val_loss, epoch, tb,
                   test_dataset, predictions, labels, i, val_log, save_log,
                   phases, logits_log, write_cnt>>

\* The parameters after one Adam step.
StepParams(p) == [p EXCEPT !.steps = p.steps + 1]

\* Line 47: optimizer.step().
OptimizerStep ==
    /\ pc = "optimizer_step"
    /\ model' = [model EXCEPT !.params = StepParams(model.params)]
    /\ optimizer' = [optimizer EXCEPT !.steps = optimizer.steps + 1]
    /\ pc' = "zero_grad"
    /\ UNCHANGED <<args, data_dir, ckpt_file, csv_file, grads, lr_scheduler,
                   best_val_loss, val_loss, epoch, tb, test_dataset,
                   predictions, labels, i, val_log, save_log, phases,
                   logits_log, write_cnt>>

\* Line 48: optimizer.zero_grad(), then the next batch.
ZeroGrad ==
    /\ pc = "zero_grad"
    /\ grads' = FALSE
    /\ tb' = tb + 1
    /\ pc' = "train"
    /\ UNCHANGED <<args, data_dir, ckpt_file, csv_file, model, optimizer,
                   lr_scheduler, best_val_loss, val_loss, epoch, test_dataset,
                   predictions, labels, i, val_log, save_log, phases,
                   logits_log, write_cnt>>

\* Line 50: the loader is exhausted, train() returns.
TrainReturn ==
    /\ pc = "train"
    /\ tb >= NumTrainBatches
    /\ phases' = Append(phases, "T")
    /\ pc' = "validate"
    /\ UNCHANGED <<args, data_dir, ckpt_file, csv_file, model, grads,
                   optimizer, lr_scheduler, best_val_loss, val_loss, epoch, tb,
                   test_dataset, predictions, labels, i, val_log, save_log,
                   logits_log, write_cnt>>

\* -------------------------------------------------------------- validate()
\* Variant: validate() also takes an optimizer step.
ValidatedModel_Stepped(m) ==
    [m EXCEPT !.training = FALSE, !.params = StepParams(m.params)]

\* The model after validate(): model.eval(), forward passes under no_grad.
ValidatedModel(m) == [m EXCEPT !.training = FALSE]

\* Lines 53-64 and 126: one loss per validation batch, their mean returned.
Validate ==
    /\ pc = "validate"
    /\ \E losses \in [1..NumValBatches -> BatchLosses] :
          val_loss' = Mean(losses)
    /\ model' = ValidatedModel(model)
    /\ val_log' = Append(val_log, [loss |-> val_loss', params |-> model'.params])
    /\ phases' = Append(phases, "V")
    /\ pc' = "scheduler"
    /\ UNCHANGED <<args, data_dir, ckpt_file, csv_file, grads, optimizer,
                   lr_scheduler, best_val_loss, epoch, tb, test_dataset,
                   predictions, labels, i, save_log, logits_log, write_cnt>>

\* ------------------------------------------------- ReduceLROnPlateau.step()
\* mode="min", threshold 1e-4 relative: a < best * (1 - 1e-4).
IsBetter(a, best) ==
    IF a.kind = "nan" \/ best.kind = "nan" THEN FALSE
    ELSE IF a.kind = "inf" THEN FALSE
    ELSE IF best.kind = "inf" THEN TRUE
    ELSE a.n * best.d * ThresholdDen < best.n * (ThresholdDen - 1) * a.d

\* Variant: num_bad_epochs >= patience.
PatienceExceeded_Early(n) == n >= Patience

\* num_bad_epochs > patience
PatienceExceeded(n) == n > Patience

\* new_lr = old_lr * factor, applied when it differs from old_lr.
ReducedLR(lr) ==
    LET new == (lr * FactorNum) \div FactorDen
    IN IF lr - new > 0 THEN new ELSE lr

SchedulerAfter(sch, metric) ==
    LET better == IsBetter(metric, sch.best)
        bad == IF better THEN 0 ELSE sch.num_bad_epochs + 1
    IN [best |-> IF better THEN metric ELSE sch.best,
        num_bad_epochs |-> IF PatienceExceeded(bad) THEN 0 ELSE bad]

OptimizerAfterScheduler(opt, sch, metric) ==
    LET better == IsBetter(metric, sch.best)
        bad == IF better THEN 0 ELSE sch.num_bad_epochs + 1
    IN IF PatienceExceeded(bad) THEN [opt EXCEPT !.lr = ReducedLR(opt.lr)]
       ELSE opt

\* Line 127.
SchedulerStep ==
    /\ pc = "scheduler"
    /\ lr_scheduler' = SchedulerAfter(lr_scheduler, val_loss)
    /\ optimizer' = OptimizerAfterScheduler(optimizer, lr_scheduler, val_loss)
    /\ phases' = Append(phases, "S")
    /\ pc' = "checkpoint"
    /\ UNCHANGED <<args, data_dir, ckpt_file, csv_file, model, grads,
                   best_val_loss, val_loss, epoch, tb, test_dataset, predictions, labels, i, val_log,
                   save_log, logits_log, write_cnt>>

\* ------------------------------------------------------------- checkpoint
\* Variant: val_loss <= best_val_loss.
ShouldSave_NotGreater(v, best) == FLe(v, best)

\* if val_loss < best_val_loss (line 129).
ShouldSave(v, best) == FLt(v, best)

\* Variant: the write is lost.
SavedFile_NotWritten(f, p) == f

\* torch.save(model.state_dict(), fp) on {name}_best.pth (lines 131-132).
SavedFile(f, p) == [exists |-> TRUE, params |-> p, by |-> "this_run"]

\* Lines 129-132, then the next iteration of the for loop.
Checkpoint ==
    /\ pc = "checkpoint"
    /\ IF ShouldSave(val_loss, best_val_loss)
       THEN /\ best_val_loss' = val_loss
            /\ ckpt_file' = SavedFile(ckpt_file, model.params)
            /\ save_log' = Append(save_log, [epoch |-> epoch, loss |-> val_loss,
                                             params |-> model.params])
            /\ phases' = Append(phases, "C")
       ELSE UNCHANGED <<best_val_loss, ckpt_file, save_log, phases>>
    /\ epoch' = epoch + 1
    /\ pc' = "loop"
    /\ UNCHANGED <<args, data_dir, csv_file, model, grads, optimizer,
                   lr_scheduler, val_loss, tb, test_dataset, predictions,
                   labels, i, val_log, logits_log, write_cnt>>

\* ----------------------------------------------------------- inference
\* VideoDataset(split="test"): the videos' labels in dataset order, either the
\* class of each video or the -1 placeholder of an unlabelled split.
TestDatasets(n) ==
    {[k \in 1..n |-> (k - 1) % NumClasses], [k \in 1..n |-> 0 - 1]}

\* Lines 135-137.
PrepareTest ==
    /\ pc = "prepare_test"
    /\ test_dataset' \in TestDatasets(data_dir.test)
    /\ pc' = "load_best"
    /\ UNCHANGED <<args, data_dir, ckpt_file, csv_file, model, grads,
                   optimizer, lr_scheduler, best_val_loss, val_loss, epoch, tb,
                   predictions, labels, i, val_log, save_log, phases,
                   logits_log, write_cnt>>

\* Lines 139-141.
LoadBest ==
    /\ pc = "load_best"
    /\ IF CanOpen(ckpt_file)
       THEN /\ model' = LoadStateDict(model, ckpt_file)
            /\ pc' = "predict"
       ELSE /\ pc' = "aborted"
            /\ UNCHANGED model
    /\ UNCHANGED <<args, data_dir, ckpt_file, csv_file, grads, optimizer,
                   lr_scheduler, best_val_loss, val_loss, epoch, tb,
                   test_dataset, predictions, labels, i, val_log, save_log,
                   phases, logits_log, write_cnt>>

Zeros(n) == [k \in 1..n |-> 0]

\* Lines 68-70: model.eval(), np.zeros((len(loader.dataset),)) twice.
PredictStart ==
    /\ pc = "predict"
    /\ model' = [model EXCEPT !.training = FALSE]
    /\ predictions' = Zeros(Len(test_dataset))
    /\ labels' = Zeros(Len(test_dataset))
    /\ write_cnt' = Zeros(Len(test_dataset))
    /\ logits_log' = <<>>
    /\ i' = 0
    /\ pc' = "predict_loop"
    /\ UNCHANGED <<args, data_dir, ckpt_file, csv_file, grads, optimizer,
                   lr_scheduler, best_val_loss, val_loss, epoch, tb,
                   test_dataset, val_log, save_log, phases>>

\* Number of videos in test batch b (0-based), the last one possibly partial.
BatchLen(b) ==
    Min(args.batch_size, Len(test_dataset) - b * args.batch_size)

\* The logits tensors a model can return for n videos: n rows of NumClasses.
LogitsTensors(n) == [1..n -> [1..NumClasses -> LogitVals]]

\* Row-major flattening of an n x NumClasses tensor, as a sequence.
Flatten(t, n) ==
    [k \in 1..(n * NumClasses) |->
        t[((k - 1) \div NumClasses) + 1][((k - 1) % NumClasses) + 1]]

\* numpy argmax of a vector: the 0-based index of the first largest entry.
ArgMax(v) ==
    CHOOSE k \in 0..(Len(v) - 1) :
        /\ \A j \in 1..Len(v) : v[j] <= v[k + 1]
        /\ \A j \in 1..k : v[j] < v[k + 1]

\* pred_labels.numpy().argmax() followed by reshape(-1) (lines 77-78).
BatchPrediction(t, n) == <<ArgMax(Flatten(t, n))>>

\* The positions arr[lo:hi] selects, 1-based, clipped to the array.
SlicePositions(arr, lo, hi) == {k \in 1..Len(arr) : lo < k /\ k <= hi}

\* numpy accepts arr[lo:hi] = vals when vals has one element or as many
\* elements as the slice.
SliceFits(arr, lo, hi, vals) ==
    \/ Len(vals) = 1
    \/ Len(vals) = Cardinality(SlicePositions(arr, lo, hi))

\* arr[lo:hi] = vals, a one-element vals being broadcast.
SliceAssign(arr, lo, hi, vals) ==
    [k \in 1..Len(arr) |->
        IF k \in SlicePositions(arr, lo, hi)
        THEN IF Len(vals) = 1 THEN vals[1] ELSE vals[k - lo]
        ELSE arr[k]]

\* Lines 71-79: one test batch.
PredictBatch ==
    /\ pc = "predict_loop"
    /\ i < NumTestBatches
    /\ LET n == BatchLen(i)
           lo == i * args.batch_size
           hi == (i + 1) * args.batch_size
           label == [k \in 1..n |-> test_dataset[lo + k]]
       IN \E t \in LogitsTensors(n) :
             LET prediction == BatchPrediction(t, n)
             IN IF SliceFits(predictions, lo, hi, prediction)
                   /\ SliceFits(labels, lo, hi, label)
                THEN /\ predictions' = SliceAssign(predictions, lo, hi, prediction)
                     /\ labels' = SliceAssign(labels, lo, hi, label)
                     /\ write_cnt' =
                           [k \in 1..Len(write_cnt) |->
                               IF k \in SlicePositions(predictions, lo, hi)
                               THEN write_cnt[k] + 1 ELSE write_cnt[k]]
                     /\ logits_log' = logits_log \o t
                     /\ i' = i + 1
                     /\ pc' = "predict_loop"
                ELSE /\ pc' = "aborted"
                     /\ UNCHANGED <<predictions, labels, write_cnt,
                                    logits_log, i>>
    /\ UNCHANGED <<args, data_dir, ckpt_file, csv_file, model, grads,
                   optimizer, lr_scheduler, best_val_loss, val_loss, epoch, tb,
                   test_dataset, val_log, save_log, phases>>

\* Line 80: predict() returns.
PredictReturn ==
    /\ pc = "predict_loop"
    /\ i >= NumTestBatches
    /\ pc' = "write_csv"
    /\ UNCHANGED <<args, data_dir, ckpt_file, csv_file, model, grads,
                   optimizer, lr_scheduler, best_val_loss, val_loss, epoch, tb,
                   test_dataset, predictions, labels, i, val_log, save_log,
                   phases, logits_log, write_cnt>>

\* Lines 143-146: the data frame of video_names, predictions and labels.
WriteCsv ==
    /\ pc = "write_csv"
    /\ IF Len(predictions) = Len(test_dataset) /\ Len(labels) = Len(test_dataset)
       THEN /\ csv_file' =
                  [exists |-> TRUE,
                   rows |-> [k \in 1..Len(test_dataset) |->
                               [video_name |-> k,
                                prediction |-> predictions[k],
                                label |-> labels[k]]]]
            /\ pc' = "exit"
       ELSE /\ pc' = "aborted"
            /\ UNCHANGED csv_file
    /\ UNCHANGED <<args, data_dir, ckpt_file, model, grads, optimizer,
                   lr_scheduler, best_val_loss, val_loss, epoch, tb,
                   test_dataset, predictions, labels, i, val_log, save_log,
                   phases, logits_log, write_cnt>>

Next ==
    \/ ContinueTraining
    \/ PrepareTraining
    \/ LoopHead
    \/ TrainForwardBackward
    \/ OptimizerStep
    \/ ZeroGrad
    \/ TrainReturn
    \/ Validate
    \/ SchedulerStep
    \/ Checkpoint
    \/ PrepareTest
    \/ LoadBest
    \/ PredictStart
    \/ PredictBatch
    \/ PredictReturn
    \/ WriteCsv

Spec == Init /\ [][Next]_vars

\* The script is one sequential thread that keeps running until it exits.
FairSpec == Init /\ [][Next]_vars /\ WF_vars(Next)

TypeOK ==
    /\ pc \in {"continue_check", "setup", "loop", "train", "optimizer_step",
               "zero_grad", "validate", "scheduler", "checkpoint",
               "prepare_test", "load_best", "predict", "predict_loop",
               "write_csv", "exit", "aborted"}
    /\ epoch \in 0..(args.epochs + 1)

\* ==================================================================
\* Properties
\* ==================================================================
\* The smallest of +infinity and the non-NaN validation losses of epochs
\* 1..n of the run.
LossesUpTo(n) ==
    {Inf} \cup {val_log[k].loss : k \in {j \in 1..n : val_log[j].loss.kind # "nan"}}

MinLossUpTo(n) ==
    CHOOSE l \in LossesUpTo(n) : \A m \in LossesUpTo(n) : FLe(l, m)

SavedAt(k) == \E j \in 1..Len(save_log) : save_log[j].epoch = k - 1

Improved(k) == FLt(val_log[k].loss, MinLossUpTo(k - 1))

\* C1: a checkpoint is written in exactly the epochs whose validation loss
\* is strictly below the best so far, with the parameters of that epoch;
\* between epochs best_val_loss is the minimum validation loss observed (or
\* +infinity), and the file holds the parameters of the last such epoch, or
\* is the untouched file of before the run.
C1_CheckpointIffImproved ==
    (~args.predict /\ pc = "loop") =>
        /\ Len(val_log) = epoch
        /\ \A k \in 1..Len(val_log) : SavedAt(k) <=> Improved(k)
        /\ \A j \in 1..Len(save_log) :
              /\ save_log[j].loss = val_log[save_log[j].epoch + 1].loss
              /\ save_log[j].params = val_log[save_log[j].epoch + 1].params
        /\ best_val_loss = MinLossUpTo(Len(val_log))
        /\ IF save_log = <<>>
           THEN ckpt_file \in {NoFile, EarlierFile}
           ELSE ckpt_file = [exists |-> TRUE,
                             params |-> save_log[Len(save_log)].params,
                             by |-> "this_run"]

\* An epoch wrote the file, and a later epoch with an equal loss, one with a
\* NaN loss and one with a greater loss did not.
C1_Witness ==
    /\ ~args.predict /\ pc = "loop" /\ Len(val_log) >= 4
    /\ SavedAt(1)
    /\ \E k \in 2..Len(val_log) :
          val_log[k].loss = val_log[1].loss /\ ~SavedAt(k)
    /\ \E k \in 2..Len(val_log) : val_log[k].loss.kind = "nan" /\ ~SavedAt(k)
    /\ \E k \in 2..Len(val_log) : FLt(val_log[1].loss, val_log[k].loss)

\* ------------------------------------------------------------------
PredictionOfVideo(k) == ArgMax(logits_log[k])

\* C2: every prediction predict() has stored is the arg-max class of that
\* video's own logits row, hence a class index in [0, NumClasses).
C2_PerVideoArgMax ==
    (pc \in {"predict_loop", "write_csv", "exit"}) =>
        \A k \in 1..Len(logits_log) :
            /\ predictions[k] = PredictionOfVideo(k)
            /\ predictions[k] \in 0..(NumClasses - 1)

\* C3: the CSV has one row per test video, row k holding the name, the
\* prediction and the label of the k-th video, each position of the arrays
\* having been assigned exactly once.
C3_AlignedRows ==
    (pc = "exit") =>
        /\ Len(predictions) = data_dir.test
        /\ Len(labels) = data_dir.test
        /\ Len(csv_file.rows) = data_dir.test
        /\ \A k \in 1..data_dir.test :
              /\ write_cnt[k] = 1
              /\ csv_file.rows[k].video_name = k
              /\ csv_file.rows[k].label = test_dataset[k]
              /\ csv_file.rows[k].prediction = PredictionOfVideo(k)

\* ------------------------------------------------------------------
HasComparableLoss == \E k \in 1..Len(val_log) : val_log[k].loss.kind # "nan"

\* The earliest epoch whose validation loss is the lowest of the run.
LowestEpoch ==
    CHOOSE k \in 1..Len(val_log) :
        /\ val_log[k].loss.kind # "nan"
        /\ \A j \in 1..Len(val_log) :
              val_log[j].loss.kind # "nan" => FLe(val_log[k].loss, val_log[j].loss)
        /\ \A j \in 1..(k - 1) : val_log[j].loss # val_log[k].loss

PredictAfterTraining ==
    ~args.predict /\ args.epochs >= 1 /\ pc \in {"predict", "predict_loop"}

\* C4 as claimed: whenever predict() runs after E >= 1 epochs, the model
\* holds the parameters of the earliest epoch with the lowest validation
\* loss.
C4_BestEpochAlways ==
    PredictAfterTraining =>
        /\ HasComparableLoss
        /\ model.params = val_log[LowestEpoch].params

SomeEpochImproved == \E k \in 1..Len(val_log) : FLt(val_log[k].loss, Inf)

\* C4 amended: when some epoch's validation loss was below +infinity, the
\* model holds the parameters of the earliest epoch with the lowest
\* validation loss while predict() runs; when none was, predict() runs only
\* on a file that existed before the run, with that file's parameters.
C4_BestEpochWhenImproved ==
    PredictAfterTraining =>
        IF SomeEpochImproved
        THEN model.params = val_log[LowestEpoch].params
        ELSE model.params = EarlierParams

\* predict() runs on the parameters of the first of two epochs, the second
\* having trained further without a lower validation loss.
C4_Witness ==
    /\ PredictAfterTraining /\ pc = "predict_loop"
    /\ Len(val_log) >= 2
    /\ SomeEpochImproved
    /\ LowestEpoch = 1
    /\ val_log[2].loss = val_log[1].loss
    /\ val_log[2].params # val_log[1].params

\* ------------------------------------------------------------------
PredictPhase == pc \in {"predict", "predict_loop", "write_csv", "exit"}

\* C5: predict() runs, and the CSV is written, only with an existing
\* checkpoint file whose parameters the model has loaded; continue-training
\* gets past its load only with an existing file; and a run that stopped at
\* a load had no file to open and wrote no CSV.
C5_MissingFileIsFatal ==
    /\ (PredictPhase \/ csv_file.exists) =>
          ckpt_file.exists /\ model.params = ckpt_file.params
    /\ (args.continue_training /\ pc \notin {"continue_check", "aborted"}) =>
          ckpt_file.exists
    /\ (pc = "aborted") => ~ckpt_file.exists /\ ~csv_file.exists

\* A training run with a test video stopped at the load before prediction.
C5_Witness ==
    /\ pc = "aborted" /\ ~args.predict /\ ~args.continue_training
    /\ Len(val_log) >= 1 /\ Len(test_dataset) >= 1
    /\ ~ckpt_file.exists /\ ~csv_file.exists

AtInferenceLoad == ~args.predict /\ pc = "load_best"

\* C6 as claimed: after any training run the file exists, written by this
\* run, when the inference phase is about to read it.
C6_FileAlwaysExists ==
    AtInferenceLoad => ckpt_file.exists /\ ckpt_file.by = "this_run"

\* C6 amended: after a training run in which some epoch's validation loss
\* was below +infinity the file exists, written by this run, when the
\* inference phase is about to read it; after a run with no such epoch
\* (zero epochs, or NaN in every epoch) this run wrote no file.
C6_FileExistsWhenImproved ==
    AtInferenceLoad =>
        IF SomeEpochImproved
        THEN ckpt_file.exists /\ ckpt_file.by = "this_run"
        ELSE ckpt_file.by # "this_run" /\ save_log = <<>>

\* A fresh run wrote the file in its second epoch, after a NaN epoch.
C6_Witness ==
    /\ AtInferenceLoad /\ ~args.continue_training
    /\ Len(val_log) = 2
    /\ val_log[1].loss.kind = "nan"
    /\ ckpt_file.exists /\ ckpt_file.by = "this_run"

\* ------------------------------------------------------------------
\* The training, validation and checkpoint events of the loop, in order.
LoopEvents == SelectSeq(phases, LAMBDA e : e # "S")

Count(s, e) == Len(SelectSeq(s, LAMBDA x : x = e))

AfterLoop ==
    ~args.predict /\ pc \in {"prepare_test", "load_best", "predict",
                             "predict_loop", "write_csv", "exit"}

C7_Shape ==
    LET ph == LoopEvents
    IN /\ \A idx \in 1..Len(ph) :
             /\ ph[idx] = "T" => (idx = 1 \/ ph[idx - 1] \in {"V", "C"})
             /\ ph[idx] = "V" => (idx > 1 /\ ph[idx - 1] = "T")
             /\ ph[idx] = "C" => (idx > 1 /\ ph[idx - 1] = "V")
       /\ Count(ph, "T") <= args.epochs
       /\ Count(ph, "V") <= Count(ph, "T")
       /\ AfterLoop => /\ Count(ph, "T") = args.epochs
                       /\ Count(ph, "V") = args.epochs

\* C7: the loop's events are E rounds of training, validation and an
\* optional checkpoint write, in that order, the write only directly after a
\* validation; and a run that enters the loop reaches the predict phase.
C7_LoopStateMachine ==
    /\ []C7_Shape
    /\ ((~args.predict /\ pc = "loop") ~> (pc = "prepare_test"))

\* Two epochs done, the first with a checkpoint write, the second without.
C7_Witness ==
    /\ AfterLoop /\ pc = "prepare_test"
    /\ LoopEvents = <<"T", "V", "C", "T", "V">>

\* ------------------------------------------------------------------
C8_Step ==
    /\ (model'.params # model.params /\ pc \notin {"continue_check", "load_best"}) =>
          /\ pc = "optimizer_step" /\ pc' = "zero_grad"
          /\ grads
          /\ optimizer'.steps = optimizer.steps + 1
    /\ (pc = "optimizer_step") => model'.params = StepParams(model.params)
    /\ (pc = "zero_grad") => ~grads' /\ tb' = tb + 1
    /\ (pc \in {"validate", "predict", "predict_loop"}) =>
          /\ model'.params = model.params
          /\ optimizer' = optimizer
          /\ grads' = grads
          /\ ckpt_file' = ckpt_file
    /\ args.predict => ckpt_file' = ckpt_file
    /\ (args.predict /\ PredictPhase) => model'.params = model.params

C8_Count ==
    (~args.predict /\ pc = "train") =>
        /\ optimizer.steps = epoch * NumTrainBatches + tb
        /\ model.params.steps = optimizer.steps
        /\ ~grads

\* C8: inside train(), validate() and predict() the parameters change only
\* in the optimizer step, taken once per training batch with gradients
\* present and followed by the gradient reset; validate() and predict()
\* change neither parameters nor optimizer state; in predict-only mode the
\* loaded parameters and the checkpoint file stay as they are.
C8_OnlyOptimizerStepChangesParams ==
    /\ [][C8_Step]_vars
    /\ []C8_Count

\* A run trained at least two batches, validated a non-empty split and
\* predicted a test video.
C8_Witness ==
    /\ pc = "exit" /\ ~args.predict
    /\ optimizer.steps >= 2 /\ NumValBatches >= 1 /\ Len(logits_log) >= 1
    /\ Len(val_log) >= 2
    /\ model.params = val_log[1].params
    /\ val_log[2].params # val_log[1].params

\* ------------------------------------------------------------------
\* The last n validation losses each failed to improve on the losses before.
NoImprovementRun(n) ==
    /\ Len(val_log) >= n
    /\ \A k \in (Len(val_log) - n + 1)..Len(val_log) : ~Improved(k)

C9_Order ==
    /\ \A idx \in 1..Len(phases) :
          /\ phases[idx] = "S" => (idx > 1 /\ phases[idx - 1] = "V")
          /\ phases[idx] = "C" => (idx > 1 /\ phases[idx - 1] = "S")
          /\ (phases[idx] = "V" /\ idx < Len(phases)) => phases[idx + 1] = "S"
    /\ (pc # "scheduler") => Count(phases, "S") = Count(phases, "V")
    /\ (~args.predict /\ pc \in {"checkpoint", "loop"}) =>
          lr_scheduler.best = MinLossUpTo(Len(val_log))

C9_Step ==
    /\ (pc = "scheduler") =>
          /\ UNCHANGED <<best_val_loss, val_loss, epoch, ckpt_file, model,
                         save_log>>
          /\ optimizer'.steps = optimizer.steps
    /\ (optimizer'.lr # optimizer.lr /\ pc # "setup") =>
          /\ pc = "scheduler"
          /\ NoImprovementRun(Patience + 1)
          /\ optimizer'.lr * FactorDen = optimizer.lr * FactorNum

FirstFiniteEpoch(k) ==
    /\ val_log[k].loss.kind = "num"
    /\ \A j \in 1..(k - 1) : val_log[j].loss.kind # "num"

\* C10: best_val_loss is +infinity when the loop starts, also in
\* continue-training mode; the first epoch with a finite validation loss
\* writes the file; the losses of successive writes strictly decrease.
C10_FreshBestEachRun ==
    (~args.predict /\ pc = "loop") =>
        /\ (epoch = 0) => best_val_loss = Inf
        /\ \A k \in 1..Len(val_log) :
              FirstFiniteEpoch(k) => SavedAt(k) /\ ckpt_file.by = "this_run"
        /\ \A j \in 1..(Len(save_log) - 1) :
              FLt(save_log[j + 1].loss, save_log[j].loss)

\* A continued run overwrote the stored file twice, the second time with a
\* lower loss.
C10_Witness ==
    /\ ~args.predict /\ args.continue_training /\ pc = "loop"
    /\ Len(save_log) = 2
    /\ FLt(save_log[2].loss, save_log[1].loss)
    /\ ckpt_file.by = "this_run"

====
